---- MODULE Spec2Model ----
(***************************************************************************)
(* A model of overcast/runner/__init__.py: the DeploymentRunner that       *)
(* provisions a stack (keypair, networks, security groups, nodes), the     *)
(* Node build / poll / clean cycle with its retry budget, the resource     *)
(* ledger written by main.deploy and replayed by main.cleanup, and the     *)
(* shell step with its deadline and retry policy.                          *)
(*                                                                         *)
(* Names are sequences of one-character strings, so that add_suffix,       *)
(* endswith and strip_suffix are computed as the code computes them.       *)
(* Resource ids are positive integers handed out by the cloud; 0 stands    *)
(* for Python's None.                                                      *)
(***************************************************************************)
EXTENDS Integers, Sequences, FiniteSets, TLC

(* ----------------------------- bounds ---------------------------------- *)

\* largest --retry-count tried
MaxRetry == 1
\* largest replica count ('number') of the node template
MaxNumber == 2
\* how many times the cleanup command is run on the same log
MaxCleanups == 2
\* the longest 'timeout', 'total-timeout' and 'retry-delay' of a shell step
MaxDuration == 3
\* how far the clock is followed
MaxTime == 4
\* how many processes one shell step is followed through
MaxAttempts == 2
\* how many resources of one kind the cloud lists to a run that reconciles
MaxListed == 2

(* ----------------------------- helpers --------------------------------- *)

None == 0

Range(s) == {s[i] : i \in 1..Len(s)}

RECURSIVE Reverse(_)
\* list.reverse()
Reverse(s) == IF s = <<>> THEN <<>> ELSE Reverse(Tail(s)) \o <<Head(s)>>

Digit(i) == <<"0", "1", "2", "3", "4", "5", "6", "7", "8", "9">>[i + 1]

RECURSIVE Decimal(_)
\* '%d' % i
Decimal(i) ==
    IF i < 10 THEN <<Digit(i)>> ELSE Decimal(i \div 10) \o <<Digit(i % 10)>>

\* the empty dict
EmptyMap == [x \in {} |-> None]

\* s.endswith(suffix)
endswith(s, suffix) ==
    /\ Len(suffix) <= Len(s)
    /\ SubSeq(s, Len(s) - Len(suffix) + 1, Len(s)) = suffix

\* DeploymentRunner.add_suffix for a runner whose suffix is sfx (<<>>: none)
add_suffix(s, sfx) == IF sfx # <<>> THEN s \o <<"_">> \o sfx ELSE s

\* a strip_suffix that leaves the name as it is
strip_nothing(s, suffix) == s

\* the strip_suffix lambda of detect_existing_resources: s[:-len(suffix)],
\* or the identity when the suffix is empty
strip_suffix(s, suffix) ==
    IF suffix # <<>> THEN SubSeq(s, 1, Len(s) - Len(suffix)) ELSE s

(* ------------------------- the inputs of a run ------------------------- *)

Suffixes == {<<>>, <<"e">>}

NetName == <<"n">>
SgName == <<"s">>
TemplateName == <<"w">>
PubkeyName == <<"p">>

\* one network attachment of a node template
Nic(fip) == [network |-> NetName, assign_floating_ip |-> fip,
             securitygroups |-> <<SgName>>]

\* the 'networks' lists of the node template that are tried
Attachments == {<<Nic(FALSE)>>, <<Nic(TRUE), Nic(FALSE)>>}

\* the source of a rule: a CIDR block (<<>>: the rule has no 'source_group'),
\* the stack's own group, a group that is not of the stack
SourceGroups == {<<>>, SgName, <<"x">>}

\* stack descriptions: one declared network, one security group with one
\* rule, one node template, singular (number = 0 stands for a template
\* without the 'number' key) or with a replica count, with or without the
\* 'export' flag
Stacks ==
    [networks : {{NetName}},
     securitygroups : {[g \in {SgName} |-> <<[source_group |-> sg]>>] :
                          sg \in SourceGroups},
     number : 0..MaxNumber,
     export : BOOLEAN,
     attachments : Attachments]

\* the rules of the stack all name a CIDR block
CidrRules(stack) ==
    \A g \in DOMAIN stack.securitygroups :
        \A i \in 1..Len(stack.securitygroups[g]) :
            stack.securitygroups[g][i].source_group = <<>>

\* --key: not given, a file that is empty, a file holding a public key
Keys == {"none", "empty", "data"}

\* the id of a network of the cloud that no run of the stack has made
ExternalNet == 99

\* a mappings file that maps no network
NoMapping == [networks |-> EmptyMap, routers |-> EmptyMap]

\* the id of a router of the cloud
ExternalRouter == 98

\* the mappings file: nothing is mapped, or the stack's network is mapped to
\* the external one, or the routers table has the entry '*'
Mappings ==
    {NoMapping,
     [networks |-> (NetName :> ExternalNet), routers |-> EmptyMap],
     [networks |-> EmptyMap, routers |-> ("*" :> ExternalRouter)]}

\* deployments: a list of step types
StepTypes == {"provision", "shell"}

Configs == {<<"provision">>, <<"provision", "shell">>,
            <<"provision", "provision">>}

\* the command of a shell step, and the exit codes of its process
Cmd == <<"c">>
ExitCodes == {0, 1}

\* the details of a shell step: each of 'total-timeout', 'timeout',
\* 'retry-delay' and 'retry-if-fails' is a key that may be missing; the
\* value of a time key is the duration utils.parse_time makes of it
TimeKeys == {"total-timeout", "timeout", "retry-delay"}
Details ==
    {t @@ r @@ ("cmd" :> Cmd) :
        t \in UNION {[K -> 0..MaxDuration] : K \in SUBSET TimeKeys},
        r \in {EmptyMap} \cup {"retry-if-fails" :> b : b \in BOOLEAN}}

\* the shell step of the deployments that provision first
StepDetails ==
    ("total-timeout" :> 2) @@ ("timeout" :> 1) @@ ("retry-if-fails" :> TRUE)
        @@ ("cmd" :> Cmd)

(* ------------------------------ state ---------------------------------- *)

VARIABLES
    args,       \* the command line and the files it names
    pc,         \* where main.deploy is
    exc,        \* the exception that ended main.deploy ("": none)
    sh,         \* the shell step that is running: its clock, deadlines, attempts
    step,       \* index of the deployment step being run (DeploymentRunner.deploy)
    networks,   \* DeploymentRunner.networks: base name -> id
    secgroups,  \* DeploymentRunner.secgroups: base name -> id
    nodes,      \* DeploymentRunner.nodes: base name -> Node
    pending,    \* provision_step's pending_nodes
    todo,       \* _poll_pending_nodes: the names its loop has still to visit
    done,       \* _poll_pending_nodes: its done set
    iter,       \* the names a for loop of provision_step has still to visit
    cur,        \* the node build() is running for
    eth,        \* index of the loop inside create_nics / create_security_group
    local,      \* id held by the running call (network, secgroup or volume)
    ctx,        \* who called build(): "create" (_create_node) or "poll"
    cloud,      \* the resources alive in the cloud
    nextId,     \* the next id the cloud hands out
    written,    \* the lines written to the cleanup file object, in order
    flushed,    \* how many of them have reached the file on disk
    cpc,        \* where main.cleanup is
    lines,      \* main.cleanup: the lines its loop has still to visit
    calls,      \* every delete call issued, in order
    runs,       \* how many times the cleanup command has been started
    api,        \* the calls of the network API the latest delete_subnet made
    created,    \* history: <<kind, id, node>> of every resource this run created
    builds,     \* history: node -> number of completed build() calls
    cleans,     \* history: node -> number of clean() calls
    allErr      \* history: node -> every poll of it so far reported ERROR

runnerVars == <<step, networks, secgroups, nodes, pending, todo, done, iter, cur,
                eth, local, ctx>>
cloudVars == <<cloud, nextId>>
cleanupVars == <<cpc, lines, runs, api>>
histVars == <<created, builds, cleans, allErr>>

vars == <<args, pc, exc, sh, runnerVars, cloudVars, written, flushed, cleanupVars, calls,
          histVars>>

(* ------------------------------ the cloud ------------------------------ *)

\* A resource of the cloud. ref: the network of a port or subnet, the port of
\* a floating IP, the group of a rule, the subnet of a router interface; dev:
\* the instance a port is attached to, the router of a router interface.
\* A rule has no name: its name field holds its remote_group_id.
Resource(kind, id, name, ref, dev, status) ==
    [kind |-> kind, id |-> id, name |-> name, ref |-> ref, dev |-> dev,
     status |-> status]

Alive(c, kind, id) == \E r \in c : r.kind = kind /\ r.id = id

The(c, kind, id) == CHOOSE r \in c : r.kind = kind /\ r.id = id

\* a keypair is addressed by its name
KeypairAlive(c, name) == \E r \in c : r.kind = "keypair" /\ r.name = name

\* does the resource a ledger entry <<kind, id>> names exist
EntryAlive(c, e) ==
    IF e[1] = "keypair" THEN KeypairAlive(c, e[2]) ELSE Alive(c, e[1], e[2])

\* the cloud without the resource a ledger entry names
Without(c, e) ==
    IF e[1] = "keypair"
    THEN {r \in c : ~(r.kind = "keypair" /\ r.name = e[2])}
    ELSE {r \in c : ~(r.kind = e[1] /\ r.id = e[2])}

RECURSIVE ById(_)
\* the resources of a set as the list a list call returns (by id)
ById(S) ==
    IF S = {} THEN <<>>
    ELSE LET r == CHOOSE x \in S : \A y \in S : x.id <= y.id
         IN <<r>> \o ById(S \ {r})

RECURSIVE SeqOf(_)
\* the order in which a set or dict of names is iterated
SeqOf(S) ==
    IF S = {} THEN <<>>
    ELSE LET x == CHOOSE y \in S : TRUE IN <<x>> \o SeqOf(S \ {x})

\* what an earlier run under the suffix has left when it died while it polled
\* its one node: the instance is still building
LeftOver(sfx) ==
    {Resource("network", 1, add_suffix(NetName, sfx), None, None, ""),
     Resource("secgroup", 2, add_suffix(SgName, sfx), None, None, ""),
     Resource("port", 3, add_suffix(TemplateName, sfx) \o <<"_", "e", "t", "h", "0">>,
              1, 4, ""),
     Resource("server", 4, add_suffix(TemplateName, sfx), None, None, "BUILD")}

\* the names of the resources a cloud lists: two that carry the suffix "e"
\* and one that does not
ListedNames ==
    {add_suffix(TemplateName, <<"e">>),
     add_suffix(TemplateName \o <<"2">>, <<"e">>),
     TemplateName}

NameLists == UNION {[1..n -> ListedNames] : n \in 0..MaxListed}

\* a cloud that lists networks, security groups and instances of these names
Listed(nets, sgs, srvs) ==
    {Resource("network", i, nets[i], None, None, "") : i \in 1..Len(nets)}
    \cup {Resource("secgroup", Len(nets) + i, sgs[i], None, None, "") :
             i \in 1..Len(sgs)}
    \cup {Resource("server", Len(nets) + Len(sgs) + i, srvs[i], None, None,
                   "ACTIVE") : i \in 1..Len(srvs)}

ListedClouds ==
    {Listed(nets, sgs, srvs) : nets \in NameLists, sgs \in NameLists,
                               srvs \in NameLists}

\* what is in the cloud before the run: nothing; for a run that continues,
\* what the earlier run left; for a fresh run, a keypair of the run's name;
\* for the runs of an empty deployment, the clouds that list resources
PreExisting(a) ==
    IF a.cfg = <<>>
    THEN ListedClouds
    ELSE IF a.cont
    THEN {{}, LeftOver(a.suffix)}
    ELSE {{}, {Resource("keypair", None, add_suffix(PubkeyName, a.suffix),
                        None, None, "")}}

\* an id no resource of the cloud has yet
FreshId(c) ==
    IF c = {} THEN 1
    ELSE 1 + (CHOOSE i \in {r.id : r \in c} : \A r \in c : r.id <= i)

(* ------------------------------ the ledger ----------------------------- *)

\* DeploymentRunner.record_resource: the no-op of __init__, or, when a cleanup
\* file is given, main.deploy's closure, which writes one line
record_resource(w, type_, id) ==
    IF args.cleanup THEN Append(w, <<type_, id>>) ELSE w

\* Node.record_resource: the no-op lambda Node.__init__ sets, which nothing
\* ever replaces
Node_record_resource(w, type_, id) == w

\* the lines on disk
Durable == SubSeq(written, 1, flushed)

(* ------------------------------- Node ---------------------------------- *)

\* Node.__init__ without the initial attempt in the budget
NodeWithoutInitialAttempt(name, attachments, retry_count) ==
    [name |-> name, attachments |-> attachments, server_id |-> None,
     fip_ids |-> {}, ports |-> <<>>, server_status |-> "NONE",
     export |-> FALSE, attempts_left |-> retry_count]

\* Node.__init__; export is info.get('export', False), which _create_node
\* sets from the template and an empty info leaves False
Node(name, attachments, retry_count) ==
    [name |-> name, attachments |-> attachments, server_id |-> None,
     fip_ids |-> {}, ports |-> <<>>, server_status |-> "NONE",
     export |-> FALSE, attempts_left |-> retry_count + 1]

\* Node.poll, given the status the cloud reports
poll(node, reported) ==
    IF node.server_status # "ACTIVE" THEN reported ELSE node.server_status

\* what servers.get can report for an instance whose last status was st: an
\* instance that is building may have become active or failed meanwhile
Reports(st) == IF st = "BUILD" THEN {"BUILD", "ACTIVE", "ERROR"} ELSE {st}

(* ------------------- detect_existing_resources ------------------------- *)

RECURSIVE detect_table_overwriting(_, _, _)
\* a loop over a listing that lets a later resource take the base name
detect_table_overwriting(list, suffix, table) ==
    IF list = <<>> THEN [dup |-> FALSE, table |-> table]
    ELSE LET r == Head(list)
             base_name == strip_suffix(r.name, suffix)
             others == DOMAIN table \ {base_name}
         IN IF ~endswith(r.name, suffix)
            THEN detect_table_overwriting(Tail(list), suffix, table)
            ELSE detect_table_overwriting(
                     Tail(list), suffix,
                     [b \in others |-> table[b]] @@ (base_name :> r))

RECURSIVE detect_table(_, _, _)
\* one of the three loops over a listing: the resources whose names end with
\* the suffix, keyed by base name; dup when a base name comes twice
detect_table(list, suffix, table) ==
    IF list = <<>> THEN [dup |-> FALSE, table |-> table]
    ELSE LET r == Head(list)
             base_name == strip_suffix(r.name, suffix)
         IN IF ~endswith(r.name, suffix)
            THEN detect_table(Tail(list), suffix, table)
            ELSE IF base_name \in DOMAIN table
                 THEN [dup |-> TRUE, table |-> table]
                 ELSE detect_table(Tail(list), suffix,
                                   table @@ (base_name :> r))

Listing(c, kind) == ById({r \in c : r.kind = kind})

\* the address the cloud gave a port: port['fixed_ips'][0]['ip_address']
fixed_ip_of(id) == <<"i", "p">> \o Decimal(id)

\* the raw_ports entry of a port, with the floating IP the fip loop adds
raw_port(c, port, nets) ==
    LET named == {b \in DOMAIN nets : nets[b].id = port.ref}
        fips == {f \in c : f.kind = "floatingip" /\ f.ref = port.id}
    IN [id |-> port.id,
        fixed_ip |-> fixed_ip_of(port.id),
        network_name |-> IF named # {} THEN CHOOSE b \in named : TRUE
                         ELSE <<"#">> \o Decimal(port.ref),
        floating_ip |-> IF fips # {} THEN (CHOOSE f \in fips : TRUE).id
                        ELSE None]

\* the Node detect_existing_resources makes of an instance: empty info, no
\* server id, the ports whose MAC the instance's addresses name
detected_node(c, server, nets, retry_count) ==
    LET ps == Listing({r \in c : r.dev = server.id}, "port")
    IN [Node(server.name, <<>>, retry_count) EXCEPT
           !.ports = [i \in 1..Len(ps) |-> raw_port(c, ps[i], nets)]]

\* detect_existing_resources: the tables it leaves, and whether it raised
\* DuplicateResource
detect_existing_resources(c, sfx, retry_count) ==
    LET suffix == add_suffix(<<>>, sfx)
        nets == detect_table(Listing(c, "network"), suffix, EmptyMap)
        sgs == detect_table(Listing(c, "secgroup"), suffix, EmptyMap)
        srvs == detect_table(Listing(c, "server"), suffix, EmptyMap)
    IN [raised |-> nets.dup \/ sgs.dup \/ srvs.dup,
        networks |-> [b \in DOMAIN nets.table |-> nets.table[b].id],
        secgroups |-> IF nets.dup THEN EmptyMap
                      ELSE [b \in DOMAIN sgs.table |-> sgs.table[b].id],
        nodes |-> IF nets.dup \/ sgs.dup THEN EmptyMap
                  ELSE [b \in DOMAIN srvs.table |->
                          detected_node(c, srvs.table[b], nets.table,
                                        retry_count)]]

(* -------------------------------- Init --------------------------------- *)

\* a fresh run under a suffix, with a key, that records to a cleanup file and
\* holds one provision step
Plain(a) ==
    /\ a.cleanup /\ ~a.cont /\ a.key = "data"
    /\ a.suffix # <<>>
    /\ a.cfg = <<"provision">>

\* the runs the provisioning claims are checked on: every command line for a
\* stack of one node without retries, and the plain runs for the stacks of
\* several nodes and for the runs with retries
AllArgs ==
    {a \in [retry_count : 0..MaxRetry, suffix : Suffixes, key : Keys,
            cont : BOOLEAN, cleanup : BOOLEAN, cfg : Configs,
            details : {StepDetails}, mappings : Mappings, stack : Stacks] :
        /\ (a.retry_count > 0 \/ a.stack.number > 1) => Plain(a)
        /\ a.stack.export => a.cfg = <<"provision", "shell">>
        /\ a.mappings.routers # EmptyMap =>
              /\ a.retry_count = 0 /\ a.key = "data" /\ a.cleanup /\ ~a.cont
              /\ a.stack.number = 0 /\ ~a.stack.export
              /\ a.cfg = <<"provision">>
        /\ a.mappings.networks # EmptyMap =>
              /\ a.retry_count = 0 /\ a.key = "data" /\ ~a.cleanup
              /\ a.stack.number = 0 /\ ~a.stack.export
              /\ a.cfg = <<"provision">>
        /\ ~CidrRules(a.stack) =>
              /\ a.retry_count = 0 /\ a.key = "data" /\ ~a.cleanup
              /\ a.stack.number = 0 /\ ~a.stack.export
              /\ a.cfg = <<"provision">> /\ a.mappings = NoMapping}

\* the runs that are followed through crashes and cleanups: fresh runs that
\* record to a cleanup file, for one node with two attachments
RecordedArgs ==
    {a \in AllArgs : /\ a.cleanup /\ ~a.cont /\ a.key = "data"
                     /\ a.suffix # <<>>
                     /\ a.stack.number <= 1
                     /\ Len(a.stack.attachments) > 1}

\* the runs of a deployment that is one shell step, for every details
ShellArgs ==
    [retry_count : {0}, suffix : {<<>>}, key : {"data"}, cont : {FALSE},
     cleanup : {FALSE}, cfg : {<<"shell">>}, details : Details,
     mappings : {NoMapping},
     stack : {s \in Stacks : /\ s.number = 0 /\ ~s.export /\ CidrRules(s)
                              /\ Len(s.attachments) = 1}]

\* the fresh runs without retries of a deployment that only provisions
LiveArgs ==
    {a \in AllArgs : /\ a.retry_count = 0
                     /\ a.key = "data"
                     /\ a.cleanup
                     /\ "shell" \notin Range(a.cfg)}

\* the fresh runs without retries of one provision step, which are run
\* again with --incremental once they have completed
ContinueArgs ==
    {a \in AllArgs : /\ a.retry_count = 0
                     /\ a.key = "data"
                     /\ ~a.cont
                     /\ a.cfg = <<"provision">>}

\* the runs of an empty deployment that reconcile with what a cloud lists
DetectArgs ==
    [retry_count : {0}, suffix : Suffixes, key : {"data"}, cont : {TRUE},
     cleanup : {FALSE}, cfg : {<<>>}, details : {StepDetails},
     mappings : {NoMapping},
     stack : {s \in Stacks : /\ s.number = 0 /\ ~s.export /\ CidrRules(s)
                              /\ Len(s.attachments) = 1}]

\* no shell step is running: the clock, and no process
NoShell ==
    [now |-> 1, overall_deadline |-> None, individual_exec_limit |-> None,
     retry_delay |-> 0, deadline |-> None, proc |-> "none",
     returncode |-> None, stdin |-> 0, spawned |-> 0, started |-> None,
     env_prefix |-> <<>>, result |-> ""]

\* the state when main.deploy starts, for the runs of a set
InitOf(argset) ==
    /\ args \in argset
    /\ cloud \in PreExisting(args)
    /\ nextId = FreshId(cloud)
    /\ pc = "main"
    /\ exc = ""
    /\ sh = NoShell
    /\ step = 1
    /\ networks = EmptyMap
    /\ secgroups = EmptyMap
    /\ nodes = EmptyMap
    /\ pending = {}
    /\ todo = {}
    /\ done = {}
    /\ iter = <<>>
    /\ cur = <<>>
    /\ eth = 0
    /\ local = None
    /\ ctx = ""
    /\ written = <<>>
    /\ flushed = 0
    /\ cpc = "idle"
    /\ lines = <<>>
    /\ calls = <<>>
    /\ runs = 0
    /\ api = <<>>
    /\ created = {}
    /\ builds = EmptyMap
    /\ cleans = EmptyMap
    /\ allErr = EmptyMap

Init == InitOf(RecordedArgs)

InitProvision == InitOf(AllArgs)

InitShell == InitOf(ShellArgs)

InitLive == InitOf(LiveArgs)

InitDetect == InitOf(DetectArgs)

InitContinue == InitOf(ContinueArgs)

(* ------------------------- main.deploy, deploy ------------------------- *)

Running == pc \notin {"aborted", "done", "failed", "crashed"}

\* a deploy that catches the exception of a step and goes on with its loop
RaiseCaught(e) ==
    /\ pc' = "deploy"
    /\ exc' = e
    /\ flushed' = flushed

\* an exception leaves main.deploy: the with statement closes the cleanup
\* file, which writes out what is buffered
Raise(e) ==
    /\ pc' = "failed"
    /\ exc' = e
    /\ flushed' = Len(written)

\* main.deploy before dr.deploy: without --key the name key is unbound when
\* the runner is made; with --incremental detect_existing_resources runs
MainDeploy ==
    /\ pc = "main"
    /\ LET d == detect_existing_resources(cloud, args.suffix, args.retry_count)
       IN IF args.key = "none" \/ (args.cont /\ d.raised)
          THEN /\ pc' = "aborted"
               /\ exc' = IF args.key = "none" THEN "UnboundLocalError"
                         ELSE "DuplicateResource"
               /\ IF args.key = "none"
                  THEN UNCHANGED <<networks, secgroups, nodes>>
                  ELSE /\ networks' = d.networks
                       /\ secgroups' = d.secgroups
                       /\ nodes' = d.nodes
          ELSE /\ pc' = "deploy"
               /\ exc' = exc
               /\ IF args.cont
                  THEN /\ networks' = d.networks
                       /\ secgroups' = d.secgroups
                       /\ nodes' = d.nodes
                  ELSE UNCHANGED <<networks, secgroups, nodes>>
    /\ UNCHANGED <<args, sh, step, pending, todo, done, iter, cur, eth, local,
                   ctx, cloudVars, written, flushed, cleanupVars, calls,
                   histVars>>

\* DeploymentRunner.deploy: the next step is a provision step
DeployProvision ==
    /\ pc = "deploy"
    /\ step <= Len(args.cfg)
    /\ args.cfg[step] = "provision"
    /\ pc' = "keypair"
    /\ UNCHANGED <<args, sh, exc, runnerVars, cloudVars, written, flushed, cleanupVars,
                   calls, histVars>>

\* DeploymentRunner.deploy: the next step is a shell step
DeployShell ==
    /\ pc = "deploy"
    /\ step <= Len(args.cfg)
    /\ args.cfg[step] = "shell"
    /\ pc' = "shell"
    /\ UNCHANGED <<args, sh, exc, runnerVars, cloudVars, written, flushed, cleanupVars,
                   calls, histVars>>

\* DeploymentRunner.deploy returns after the last step; main.deploy closes the
\* cleanup file
DeployReturns ==
    /\ pc = "deploy"
    /\ step > Len(args.cfg)
    /\ pc' = "done"
    /\ flushed' = Len(written)
    /\ UNCHANGED <<args, sh, exc, runnerVars, cloudVars, written, cleanupVars, calls,
                   histVars>>

(* ----------------------- shell_step, run_cmd_once --------------------- *)

\* details.get(key, False) as a condition: the key is there, and its value,
\* a time string or a boolean, is not a false one
truthy(details, key) ==
    /\ key \in DOMAIN details
    /\ key = "retry-if-fails" => details[key]

\* shell_step: the deadline of the next attempt
deadline_of(now, individual_exec_limit, overall_deadline) ==
    IF individual_exec_limit # 0
    THEN IF overall_deadline # None /\ now + individual_exec_limit > overall_deadline
         THEN overall_deadline
         ELSE now + individual_exec_limit
    ELSE IF overall_deadline # None THEN overall_deadline ELSE None

\* a shell step that retries whatever 'retry-if-fails' says
retries_always(details) == TRUE

\* shell_step's except clauses: does the step retry at all
retry_if_fails(details) == truthy(details, "retry-if-fails")

InShellStep == pc \in {"shell_loop", "run_stdin", "run_poll", "run_deadline",
                       "shell_timed_out"}

InRunCmdOnce == pc \in {"run_stdin", "run_poll", "run_deadline"}

\* the characters pipes.quote leaves alone
SafeChars ==
    {"a", "b", "c", "d", "e", "f", "g", "h", "i", "j", "k", "l", "m", "n",
     "o", "p", "q", "r", "s", "t", "u", "v", "w", "x", "y", "z",
     "A", "B", "C", "D", "E", "F", "G", "H", "I", "J", "K", "L", "M", "N",
     "O", "P", "Q", "R", "S", "T", "U", "V", "W", "X", "Y", "Z",
     "0", "1", "2", "3", "4", "5", "6", "7", "8", "9",
     "@", "%", "_", "-", "+", "=", ":", ",", ".", "/"}

RECURSIVE replace_quotes(_)
\* file.replace("'", "'\"'\"'")
replace_quotes(s) ==
    IF s = <<>> THEN <<>>
    ELSE (IF Head(s) = "'" THEN <<"'", "\"", "'", "\"", "'">> ELSE <<Head(s)>>)
         \o replace_quotes(Tail(s))

\* pipes.quote: a word of safe characters as it is, anything else between
\* single quotes
quote(s) ==
    IF s = <<>> THEN <<"'", "'">>
    ELSE IF \A i \in 1..Len(s) : s[i] \in SafeChars THEN s
    ELSE <<"'">> \o replace_quotes(s) \o <<"'">>

RECURSIVE join(_)
\* ' '.join(names)
join(names) ==
    IF names = <<>> THEN <<>>
    ELSE IF Len(names) = 1 THEN Head(names)
    ELSE Head(names) \o <<" ">> \o join(Tail(names))

\* add_environment: one more 'key=value ' of the prefix
add_environment(env_prefix, key, value) ==
    Append(env_prefix, <<quote(key), quote(value)>>)

ALL_NODES == <<"A", "L", "L", "_", "N", "O", "D", "E", "S">>

\* 'OVERCAST_%s_%s_fixed' % (node_name, port['network_name'])
fixed_key(node_name, network_name) ==
    <<"O", "V", "E", "R", "C", "A", "S", "T", "_">> \o node_name \o <<"_">>
        \o network_name \o <<"_", "f", "i", "x", "e", "d">>

RECURSIVE export_ports(_, _, _, _)
\* the loop over the ports of a node that sets export
export_ports(env_prefix, node_name, ports, i) ==
    IF i > Len(ports) THEN env_prefix
    ELSE export_ports(add_environment(env_prefix,
                                      fixed_key(node_name, ports[i].network_name),
                                      ports[i].fixed_ip),
                      node_name, ports, i + 1)

RECURSIVE export_nodes(_, _, _)
\* the loop over self.nodes, which skips the nodes whose info does not set
\* export
export_nodes(env_prefix, ns, names) ==
    IF names = <<>> THEN env_prefix
    ELSE export_nodes(IF ns[Head(names)].export
                      THEN export_ports(env_prefix, Head(names),
                                        ns[Head(names)].ports, 1)
                      ELSE env_prefix,
                      ns, Tail(names))

\* build_env_prefix for details without 'environment': ALL_NODES, then the
\* fixed IPs of the exported nodes
build_env_prefix(ns, sfx) ==
    LET names == SeqOf(DOMAIN ns)
    IN export_nodes(add_environment(<<>>, ALL_NODES,
                        join([i \in 1..Len(names) |-> add_suffix(names[i], sfx)])),
                    ns, names)

\* shell_step up to its loop: the environment prefix, the overall deadline,
\* the limit of one execution and the delay between two
ShellStep ==
    /\ pc = "shell"
    /\ sh' = [NoShell EXCEPT
                !.now = sh.now,
                !.env_prefix = build_env_prefix(nodes, args.suffix),
                !.overall_deadline =
                    IF truthy(args.details, "total-timeout")
                    THEN sh.now + args.details["total-timeout"] ELSE None,
                !.individual_exec_limit =
                    IF truthy(args.details, "timeout")
                    THEN args.details["timeout"] ELSE None,
                !.retry_delay =
                    IF truthy(args.details, "retry-delay")
                    THEN args.details["retry-delay"] ELSE 0]
    /\ pc' = "shell_loop"
    /\ UNCHANGED <<args, exc, runnerVars, cloudVars, written, flushed, cleanupVars,
                   calls, histVars>>

\* the head of shell_step's loop sets the deadline, and run_cmd_once starts
\* the process
ShellAttempt ==
    /\ pc = "shell_loop"
    /\ sh.spawned < MaxAttempts
    /\ sh' = [sh EXCEPT
                !.deadline = deadline_of(sh.now, sh.individual_exec_limit,
                                         sh.overall_deadline),
                !.proc = "running",
                !.returncode = None,
                !.stdin = Len(args.details["cmd"]) + 1,
                !.spawned = @ + 1,
                !.started = sh.now,
                !.result = ""]
    /\ pc' = "run_stdin"
    /\ UNCHANGED <<args, exc, runnerVars, cloudVars, written, flushed, cleanupVars,
                   calls, histVars>>

\* time passes while a shell step runs
Tick ==
    /\ InShellStep
    /\ sh.now < MaxTime
    /\ sh' = [sh EXCEPT !.now = @ + 1]
    /\ UNCHANGED <<args, pc, exc, runnerVars, cloudVars, written, flushed,
                   cleanupVars, calls, histVars>>

\* the process ends by itself
ProcExits ==
    /\ InRunCmdOnce
    /\ sh.proc = "running"
    /\ \E code \in ExitCodes :
          sh' = [sh EXCEPT !.proc = "exited", !.returncode = code]
    /\ UNCHANGED <<args, pc, exc, runnerVars, cloudVars, written, flushed,
                   cleanupVars, calls, histVars>>

\* run_cmd_once feeds the command: nothing is left of it, or select waits
\* its second in vain, or one character goes into the pipe
RunCmdOnceStdin ==
    /\ pc = "run_stdin"
    /\ \/ /\ sh.stdin = 0
          /\ sh' = sh
       \/ /\ sh.stdin > 0
          /\ sh.proc = "running"
          /\ sh.now < MaxTime
          /\ sh' = [sh EXCEPT !.now = @ + 1]
       \/ /\ sh.stdin > 0
          /\ sh.proc = "running"
          /\ sh' = [sh EXCEPT !.stdin = @ - 1]
    /\ pc' = "run_poll"
    /\ UNCHANGED <<args, exc, runnerVars, cloudVars, written, flushed, cleanupVars,
                   calls, histVars>>

\* run_cmd_once writes into the pipe of a process that has ended: the
\* IOError leaves run_cmd_once and shell_step
RunCmdOnceBrokenPipe ==
    /\ pc = "run_stdin"
    /\ sh.stdin > 0
    /\ sh.proc = "exited"
    /\ sh' = [sh EXCEPT !.result = "IOError"]
    /\ Raise("IOError")
    /\ UNCHANGED <<args, runnerVars, cloudVars, written, cleanupVars, calls,
                   histVars>>

\* proc.poll() finds the process still running
RunCmdOnceRunning ==
    /\ pc = "run_poll"
    /\ sh.proc = "running"
    /\ pc' = "run_deadline"
    /\ UNCHANGED <<args, sh, exc, runnerVars, cloudVars, written, flushed,
                   cleanupVars, calls, histVars>>

\* proc.poll() finds the exit code 0: run_cmd_once returns True, shell_step
\* breaks out of its loop and returns
RunCmdOnceReturns ==
    /\ pc = "run_poll"
    /\ sh.proc = "exited"
    /\ sh.returncode = 0
    /\ sh' = [sh EXCEPT !.result = "returned"]
    /\ pc' = "deploy"
    /\ step' = step + 1
    /\ UNCHANGED <<args, exc, networks, secgroups, nodes, pending, todo, done, iter,
                   cur, eth, local, ctx, cloudVars, written, flushed,
                   cleanupVars, calls, histVars>>

\* proc.poll() finds another exit code: run_cmd_once raises CommandFailed,
\* and shell_step waits and goes round its loop, or lets the exception go
RunCmdOnceFails ==
    /\ pc = "run_poll"
    /\ sh.proc = "exited"
    /\ sh.returncode # 0
    /\ IF retry_if_fails(args.details)
       THEN /\ sh.now + sh.retry_delay <= MaxTime
            /\ sh' = [sh EXCEPT !.result = "CommandFailed",
                                !.now = @ + sh.retry_delay]
            /\ pc' = "shell_loop"
            /\ UNCHANGED <<exc, flushed>>
       ELSE /\ sh' = [sh EXCEPT !.result = "CommandFailed"]
            /\ Raise("CommandFailed")
    /\ UNCHANGED <<args, runnerVars, cloudVars, written, cleanupVars, calls,
                   histVars>>

\* the end of run_cmd_once's loop: past the deadline the process is killed
\* if it still runs and CommandTimedOut is raised
RunCmdOnceDeadline ==
    /\ pc = "run_deadline"
    /\ IF sh.deadline # None /\ sh.now > sh.deadline
       THEN /\ sh' = [sh EXCEPT
                        !.proc = IF @ = "running" THEN "killed" ELSE @,
                        !.result = "CommandTimedOut"]
            /\ pc' = "shell_timed_out"
       ELSE /\ pc' = "run_stdin"
            /\ sh' = sh
    /\ UNCHANGED <<args, exc, runnerVars, cloudVars, written, flushed, cleanupVars,
                   calls, histVars>>

\* shell_step's except clause for CommandTimedOut: it waits and goes round
\* its loop if the delay ends before the deadline, or lets the exception go
ShellTimedOut ==
    /\ pc = "shell_timed_out"
    /\ IF retry_if_fails(args.details) /\ sh.now + sh.retry_delay < sh.deadline
       THEN /\ sh.now + sh.retry_delay <= MaxTime
            /\ sh' = [sh EXCEPT !.now = @ + sh.retry_delay]
            /\ pc' = "shell_loop"
            /\ UNCHANGED <<exc, flushed>>
       ELSE /\ sh' = sh
            /\ Raise("CommandTimedOut")
    /\ UNCHANGED <<args, runnerVars, cloudVars, written, cleanupVars, calls,
                   histVars>>

(* --------------------------- provision_step ---------------------------- *)

\* a test that finds no name in a naming table
resolved_never(table, base_name) == FALSE

\* 'base_network_name in self.networks', 'base_secgroup_name in
\* self.secgroups'
resolved(table, base_name) == base_name \in DOMAIN table

\* self.networks[base_network_name] = ..., self.secgroups[base_name] = ...
assign(table, base_name, id) ==
    [b \in DOMAIN table \cup {base_name} |->
        IF b = base_name THEN id ELSE table[b]]

\* provision_step up to the loop over the networks: create_keypair, which
\* swallows the conflict of a keypair that exists, and the keypair's record
ProvisionKeypair ==
    /\ pc = "keypair"
    /\ LET keypair_name == add_suffix(PubkeyName, args.suffix)
       IN IF args.key = "data"
          THEN /\ IF KeypairAlive(cloud, keypair_name)
                  THEN UNCHANGED <<cloud, created>>
                  ELSE /\ cloud' = cloud \cup
                            {Resource("keypair", None, keypair_name, None, None, "")}
                       /\ created' = created \cup {<<"keypair", keypair_name, <<>>>>}
               /\ written' = record_resource(written, "keypair", keypair_name)
          ELSE UNCHANGED <<cloud, created, written>>
    /\ pending' = {}
    /\ iter' = SeqOf(args.stack.networks)
    /\ pc' = "networks"
    /\ UNCHANGED <<args, sh, exc, step, networks, secgroups, nodes, todo, done, cur, eth,
                   local, ctx, nextId, flushed, cleanupVars, calls, builds,
                   cleans, allErr>>

\* the loop over stack['networks']: a name that is resolved is passed over
ProvisionNetworkKnown ==
    /\ pc = "networks"
    /\ iter # <<>>
    /\ resolved(networks, Head(iter))
    /\ iter' = Tail(iter)
    /\ UNCHANGED <<args, sh, exc, pc, step, networks, secgroups, nodes, pending, todo,
                   done, cur, eth, local, ctx, cloudVars, written, flushed,
                   cleanupVars, calls, histVars>>

\* create_network, first half: the network and its record
CreateNetwork ==
    /\ pc = "networks"
    /\ iter # <<>>
    /\ ~resolved(networks, Head(iter))
    /\ cloud' = cloud \cup {Resource("network", nextId,
                                     add_suffix(Head(iter), args.suffix),
                                     None, None, "")}
    /\ nextId' = nextId + 1
    /\ written' = record_resource(written, "network", nextId)
    /\ created' = created \cup {<<"network", nextId, <<>>>>}
    /\ local' = nextId
    /\ pc' = "subnet"
    /\ UNCHANGED <<args, sh, exc, step, networks, secgroups, nodes, pending, todo, done,
                   iter, cur, eth, ctx, flushed, cleanupVars, calls, builds,
                   cleans, allErr>>

\* create_network, second half: the subnet and its record, and the
\* interface of the router the mappings name under '*'; provision_step then
\* binds the network's base name
CreateSubnet ==
    /\ pc = "subnet"
    /\ IF "*" \in DOMAIN args.mappings.routers
       THEN /\ cloud' = cloud \cup
                   {Resource("subnet", nextId,
                             add_suffix(Head(iter), args.suffix), local, None, ""),
                    Resource("router_interface", nextId + 1, <<>>, nextId,
                             args.mappings.routers["*"], "")}
            /\ nextId' = nextId + 2
       ELSE /\ cloud' = cloud \cup
                   {Resource("subnet", nextId,
                             add_suffix(Head(iter), args.suffix), local, None, "")}
            /\ nextId' = nextId + 1
    /\ written' = record_resource(written, "subnet", nextId)
    /\ created' = created \cup {<<"subnet", nextId, <<>>>>}
    /\ networks' = assign(networks, Head(iter), local)
    /\ iter' = Tail(iter)
    /\ pc' = "networks"
    /\ UNCHANGED <<args, sh, exc, step, secgroups, nodes, pending, todo, done, cur, eth,
                   local, ctx, flushed, cleanupVars, calls, builds, cleans,
                   allErr>>

\* the loop over the networks ends
NetworksDone ==
    /\ pc = "networks"
    /\ iter = <<>>
    /\ iter' = SeqOf(DOMAIN args.stack.securitygroups)
    /\ pc' = "secgroups"
    /\ UNCHANGED <<args, sh, exc, step, networks, secgroups, nodes, pending, todo, done,
                   cur, eth, local, ctx, cloudVars, written, flushed,
                   cleanupVars, calls, histVars>>

\* the loop over stack['securitygroups']: a name that is resolved is passed over
ProvisionSecgroupKnown ==
    /\ pc = "secgroups"
    /\ iter # <<>>
    /\ resolved(secgroups, Head(iter))
    /\ iter' = Tail(iter)
    /\ UNCHANGED <<args, sh, exc, pc, step, networks, secgroups, nodes, pending, todo,
                   done, cur, eth, local, ctx, cloudVars, written, flushed,
                   cleanupVars, calls, histVars>>

\* create_security_group up to its loop over the rules
CreateSecurityGroup ==
    /\ pc = "secgroups"
    /\ iter # <<>>
    /\ ~resolved(secgroups, Head(iter))
    /\ cloud' = cloud \cup {Resource("secgroup", nextId,
                                     add_suffix(Head(iter), args.suffix),
                                     None, None, "")}
    /\ nextId' = nextId + 1
    /\ written' = record_resource(written, "secgroup", nextId)
    /\ created' = created \cup {<<"secgroup", nextId, <<>>>>}
    /\ secgroups' = assign(secgroups, Head(iter), nextId)
    /\ local' = nextId
    /\ eth' = 1
    /\ pc' = "sg_rule"
    /\ UNCHANGED <<args, sh, exc, step, networks, nodes, pending, todo, done, iter, cur,
                   ctx, flushed, cleanupVars, calls, builds, cleans, allErr>>

\* an id as the string a request carries
id_string(id) == <<"#">> \o Decimal(id)

\* a remote_group_id that is always the literal source_group
remote_group_id_literal(table, source_group) == source_group

\* self.secgroups.get(rule['source_group'], rule['source_group'])
remote_group_id(table, source_group) ==
    IF source_group \in DOMAIN table THEN id_string(table[source_group])
    ELSE source_group

\* create_security_group: one rule, with its remote group when it has a
\* source_group, and its record
CreateSecurityGroupRule ==
    /\ pc = "sg_rule"
    /\ eth <= Len(args.stack.securitygroups[Head(iter)])
    /\ LET rule == args.stack.securitygroups[Head(iter)][eth]
       IN cloud' = cloud \cup
              {Resource("secgroup_rule", nextId,
                        IF rule.source_group # <<>>
                        THEN remote_group_id(secgroups, rule.source_group)
                        ELSE <<>>,
                        local, None, "")}
    /\ nextId' = nextId + 1
    /\ written' = record_resource(written, "secgroup_rule", nextId)
    /\ created' = created \cup {<<"secgroup_rule", nextId, <<>>>>}
    /\ eth' = eth + 1
    /\ UNCHANGED <<args, sh, exc, pc, step, networks, secgroups, nodes, pending, todo,
                   done, iter, cur, local, ctx, flushed, cleanupVars, calls,
                   builds, cleans, allErr>>

\* create_security_group returns
SecurityGroupDone ==
    /\ pc = "sg_rule"
    /\ eth > Len(args.stack.securitygroups[Head(iter)])
    /\ iter' = Tail(iter)
    /\ pc' = "secgroups"
    /\ UNCHANGED <<args, sh, exc, step, networks, secgroups, nodes, pending, todo, done,
                   cur, eth, local, ctx, cloudVars, written, flushed,
                   cleanupVars, calls, histVars>>

\* the node names the loop over stack['nodes'] visits: the template's name,
\* or name1..nameN when it has a replica count
ExpandNodes(stack) ==
    IF stack.number = 0 THEN <<TemplateName>>
    ELSE [idx \in 1..stack.number |-> TemplateName \o Decimal(idx)]

\* the loop over the security groups ends
SecgroupsDone ==
    /\ pc = "secgroups"
    /\ iter = <<>>
    /\ iter' = ExpandNodes(args.stack)
    /\ pc' = "nodes"
    /\ UNCHANGED <<args, sh, exc, step, networks, secgroups, nodes, pending, todo, done,
                   cur, eth, local, ctx, cloudVars, written, flushed,
                   cleanupVars, calls, histVars>>

(* ------------------------ _create_node, build -------------------------- *)

\* DeploymentRunner._map_network
_map_network(network) ==
    IF network \in DOMAIN args.mappings.networks
    THEN args.mappings.networks[network]
    ELSE IF network \in DOMAIN networks THEN networks[network] ELSE network

\* where build() goes after the attachment before index i of create_nics
AfterNic(node, i) ==
    IF i <= Len(node.attachments) THEN "build_port" ELSE "build_volume"

\* _create_node for a name the runner knows: nothing is built, nothing is
\* returned, the name does not become pending
CreateNodeKnown ==
    /\ pc = "nodes"
    /\ iter # <<>>
    /\ Head(iter) \in DOMAIN nodes
    /\ iter' = Tail(iter)
    /\ UNCHANGED <<args, sh, exc, pc, step, networks, secgroups, nodes, pending, todo,
                   done, cur, eth, local, ctx, cloudVars, written, flushed,
                   cleanupVars, calls, histVars>>

\* _create_node for a new name: the Node is made and build() starts
CreateNode ==
    /\ pc = "nodes"
    /\ iter # <<>>
    /\ Head(iter) \notin DOMAIN nodes
    /\ LET node == [Node(add_suffix(Head(iter), args.suffix),
                         args.stack.attachments, args.retry_count)
                        EXCEPT !.export = args.stack.export]
       IN /\ nodes' = nodes @@ (Head(iter) :> node)
          /\ pc' = AfterNic(node, 1)
    /\ cur' = Head(iter)
    /\ ctx' = "create"
    /\ eth' = 1
    /\ builds' = builds @@ (Head(iter) :> 0)
    /\ cleans' = cleans @@ (Head(iter) :> 0)
    /\ allErr' = allErr @@ (Head(iter) :> TRUE)
    /\ UNCHANGED <<args, sh, exc, step, networks, secgroups, pending, todo, done, iter,
                   local, cloudVars, written, flushed, cleanupVars, calls,
                   created>>

\* create_nics: the port of attachment eth and its record
BuildPort ==
    /\ pc = "build_port"
    /\ LET node == nodes[cur]
           network == node.attachments[eth]
           port_info == [id |-> nextId, network_name |-> network.network,
                         fixed_ip |-> fixed_ip_of(nextId),
                         floating_ip |-> None]
       IN /\ cloud' = cloud \cup
                 {Resource("port", nextId,
                           node.name \o <<"_", "e", "t", "h">> \o Decimal(eth - 1),
                           _map_network(network.network), None, "")}
          /\ nodes' = [nodes EXCEPT ![cur].ports = Append(@, port_info)]
          /\ IF network.assign_floating_ip
             THEN pc' = "build_fip" /\ eth' = eth
             ELSE pc' = AfterNic(node, eth + 1) /\ eth' = eth + 1
    /\ nextId' = nextId + 1
    /\ written' = record_resource(written, "port", nextId)
    /\ created' = created \cup {<<"port", nextId, cur>>}
    /\ UNCHANGED <<args, sh, exc, step, networks, secgroups, pending, todo, done, iter,
                   cur, local, ctx, flushed, cleanupVars, calls, builds, cleans,
                   allErr>>

\* create_nics: create_floating_ip, which records the floating IP, and
\* associate_floating_ip
BuildFloatingIp ==
    /\ pc = "build_fip"
    /\ cloud' = cloud \cup {Resource("floatingip", nextId, <<>>,
                                     nodes[cur].ports[eth].id, None, "")}
    /\ nextId' = nextId + 1
    /\ written' = record_resource(written, "floatingip", nextId)
    /\ created' = created \cup {<<"floatingip", nextId, cur>>}
    /\ nodes' = [nodes EXCEPT ![cur].ports[eth].floating_ip = nextId,
                              ![cur].fip_ids = @ \cup {nextId}]
    /\ pc' = AfterNic(nodes[cur], eth + 1)
    /\ eth' = eth + 1
    /\ UNCHANGED <<args, sh, exc, step, networks, secgroups, pending, todo, done, iter,
                   cur, local, ctx, flushed, cleanupVars, calls, builds, cleans,
                   allErr>>

\* build(): the volume is created; its record goes to the Node's own
\* record_resource
BuildVolume ==
    /\ pc = "build_volume"
    /\ cloud' = cloud \cup {Resource("volume", nextId, <<>>, None, None,
                                     "creating")}
    /\ nextId' = nextId + 1
    /\ written' = Node_record_resource(written, "volume", nextId)
    /\ created' = created \cup {<<"volume", nextId, cur>>}
    /\ local' = nextId
    /\ pc' = "build_wait"
    /\ UNCHANGED <<args, sh, exc, step, networks, secgroups, nodes, pending, todo, done,
                   iter, cur, eth, ctx, flushed, cleanupVars, calls, builds,
                   cleans, allErr>>

\* build(): the loop that waits for the volume sees it available
BuildVolumeAvailable ==
    /\ pc = "build_wait"
    /\ cloud' = (cloud \ {The(cloud, "volume", local)}) \cup
                {[The(cloud, "volume", local) EXCEPT !.status = "available"]}
    /\ pc' = "build_server"
    /\ UNCHANGED <<args, sh, exc, runnerVars, nextId, written, flushed, cleanupVars,
                   calls, histVars>>

\* build(): the instance is created and recorded, on the node's ports; the
\* node takes its id and loses one attempt; build() returns to its caller
BuildServer ==
    /\ pc = "build_server"
    /\ LET node == nodes[cur]
           nics == {node.ports[i].id : i \in 1..Len(node.ports)}
       IN /\ cloud' = {IF r.kind = "port" /\ r.id \in nics
                       THEN [r EXCEPT !.dev = nextId] ELSE r : r \in cloud}
                      \cup {Resource("server", nextId, node.name, None, None,
                                     "BUILD")}
          /\ nodes' = [nodes EXCEPT ![cur].server_id = nextId,
                                    ![cur].attempts_left = @ - 1]
    /\ nextId' = nextId + 1
    /\ written' = record_resource(written, "server", nextId)
    /\ created' = created \cup {<<"server", nextId, cur>>}
    /\ builds' = [builds EXCEPT ![cur] = @ + 1]
    /\ IF ctx = "create"
       THEN /\ pending' = pending \cup {cur}
            /\ iter' = Tail(iter)
            /\ pc' = "nodes"
       ELSE /\ pc' = "poll"
            /\ UNCHANGED <<pending, iter>>
    /\ UNCHANGED <<args, sh, exc, step, networks, secgroups, todo, done, cur, eth, local,
                   ctx, flushed, cleanupVars, calls, cleans, allErr>>

(* ------------------------ the polling barrier -------------------------- *)

\* the loop over the nodes ends; the first call of _poll_pending_nodes starts
NodesDone ==
    /\ pc = "nodes"
    /\ iter = <<>>
    /\ todo' = pending
    /\ done' = {}
    /\ pc' = "poll"
    /\ UNCHANGED <<args, sh, exc, step, networks, secgroups, nodes, pending, iter, cur,
                   eth, local, ctx, cloudVars, written, flushed, cleanupVars,
                   calls, histVars>>

\* the cloud with the status of an instance set
WithStatus(c, id, st) ==
    (c \ {The(c, "server", id)}) \cup {[The(c, "server", id) EXCEPT !.status = st]}

\* _poll_pending_nodes: is a node in this state done
IsDone(state) == state = "ACTIVE"

\* _poll_pending_nodes polls a node and finds it done
PollActive(name) ==
    /\ pc = "poll"
    /\ name \in todo
    /\ \E st \in Reports(The(cloud, "server", nodes[name].server_id).status) :
          /\ IsDone(poll(nodes[name], st))
          /\ cloud' = WithStatus(cloud, nodes[name].server_id, st)
          /\ nodes' = [nodes EXCEPT ![name].server_status = poll(nodes[name], st)]
          /\ allErr' = [allErr EXCEPT ![name] = @ /\ st = "ERROR"]
    /\ done' = done \cup {name}
    /\ todo' = todo \ {name}
    /\ UNCHANGED <<args, sh, exc, pc, step, networks, secgroups, pending, iter, cur, eth,
                   local, ctx, nextId, written, flushed, cleanupVars, calls,
                   created, builds, cleans>>

\* _poll_pending_nodes polls a node that is neither done nor in error
PollBuild(name) ==
    /\ pc = "poll"
    /\ name \in todo
    /\ \E st \in Reports(The(cloud, "server", nodes[name].server_id).status) :
          /\ ~IsDone(poll(nodes[name], st))
          /\ poll(nodes[name], st) # "ERROR"
          /\ cloud' = WithStatus(cloud, nodes[name].server_id, st)
          /\ nodes' = [nodes EXCEPT ![name].server_status = poll(nodes[name], st)]
    /\ allErr' = [allErr EXCEPT ![name] = FALSE]
    /\ todo' = todo \ {name}
    /\ UNCHANGED <<args, sh, exc, pc, step, networks, secgroups, pending, done, iter, cur,
                   eth, local, ctx, nextId, written, flushed, cleanupVars,
                   calls, created, builds, cleans>>

\* Node.clean: the deletes it issues, in order
clean_calls(node) ==
    [i \in 1..Cardinality(node.fip_ids) |-> <<"floatingip", SeqOf(node.fip_ids)[i]>>]
    \o [i \in 1..Len(node.ports) |-> <<"port", node.ports[i].id>>]
    \o <<<<"server", node.server_id>>>>

\* a clean that leaves the node as it was
clean_nothing(node) == node

\* Node.clean: the node it leaves
clean(node) ==
    [node EXCEPT !.fip_ids = {}, !.ports = <<>>, !.server_id = None]

RECURSIVE DeleteAll(_, _)
\* the cloud after a list of deletes
DeleteAll(c, es) ==
    IF es = <<>> THEN c ELSE DeleteAll(Without(c, Head(es)), Tail(es))

\* a delete call as it is logged: who issued it, in which cleanup run, for
\* which entry, and whether it succeeded
Call(by, run, e, ok) == <<by, run, e[1], e[2], ok>>

\* _poll_pending_nodes, ERROR branch: does the runner clean the node
Retries(retry_count) == retry_count # 0

\* an ERROR branch that builds the cleaned node again whatever it has left
RebuildsAlways(node) == TRUE

\* _poll_pending_nodes, ERROR branch: is the cleaned node built again
Rebuilds(node) == node.attempts_left # 0

\* the state after the ERROR branch has cleaned a node (or has not)
Cleaned(name) ==
    IF Retries(args.retry_count)
    THEN /\ cloud' = DeleteAll(WithStatus(cloud, nodes[name].server_id, "ERROR"),
                               clean_calls(nodes[name]))
         /\ nodes' = [nodes EXCEPT ![name] =
                         clean([@ EXCEPT !.server_status = "ERROR"])]
         /\ calls' = calls \o
               [i \in 1..Len(clean_calls(nodes[name])) |->
                   Call("clean", 0, clean_calls(nodes[name])[i], TRUE)]
         /\ cleans' = [cleans EXCEPT ![name] = @ + 1]
    ELSE /\ cloud' = WithStatus(cloud, nodes[name].server_id, "ERROR")
         /\ nodes' = [nodes EXCEPT ![name].server_status = "ERROR"]
         /\ UNCHANGED <<calls, cleans>>

\* _poll_pending_nodes polls a node in error, cleans it and starts to build
\* it again
PollErrorRebuild(name) ==
    /\ pc = "poll"
    /\ name \in todo
    /\ "ERROR" \in Reports(The(cloud, "server", nodes[name].server_id).status)
    /\ poll(nodes[name], "ERROR") = "ERROR"
    /\ Retries(args.retry_count)
    /\ Rebuilds(nodes[name])
    /\ Cleaned(name)
    /\ todo' = todo \ {name}
    /\ cur' = name
    /\ ctx' = "poll"
    /\ eth' = 1
    /\ pc' = AfterNic(nodes[name], 1)
    /\ UNCHANGED <<args, sh, exc, step, networks, secgroups, pending, done, iter, local,
                   nextId, written, flushed, cleanupVars, created, builds,
                   allErr>>

\* _poll_pending_nodes polls a node in error and raises ProvisionFailed,
\* after cleaning the node if the runner retries at all
PollErrorRaise(name) ==
    /\ pc = "poll"
    /\ name \in todo
    /\ "ERROR" \in Reports(The(cloud, "server", nodes[name].server_id).status)
    /\ poll(nodes[name], "ERROR") = "ERROR"
    /\ ~(Retries(args.retry_count) /\ Rebuilds(nodes[name]))
    /\ Cleaned(name)
    /\ Raise("ProvisionFailed")
    /\ UNCHANGED <<args, sh, step, networks, secgroups, pending, todo, done, iter,
                   cur, eth, local, ctx, nextId, written, cleanupVars, created,
                   builds, allErr>>

\* a _poll_pending_nodes that returns the names it was given
difference_of_nothing(pending_nodes, done_) == pending_nodes

\* pending_nodes.difference(done)
difference(pending_nodes, done_) == pending_nodes \ done_

\* _poll_pending_nodes returns the names that are not done; provision_step
\* returns when there is none, and waits and polls again otherwise
PollRoundEnds ==
    /\ pc = "poll"
    /\ todo = {}
    /\ pending' = difference(pending, done)
    /\ done' = {}
    /\ IF difference(pending, done) = {}
       THEN /\ pc' = "deploy"
            /\ step' = step + 1
            /\ todo' = {}
       ELSE /\ todo' = difference(pending, done)
            /\ UNCHANGED <<pc, step>>
    /\ UNCHANGED <<args, sh, exc, networks, secgroups, nodes, iter, cur, eth, local, ctx,
                   cloudVars, written, flushed, cleanupVars, calls, histVars>>

(* ------------------- failures, crashes, the file buffer ---------------- *)

\* is the next thing provision_step does a call of the cloud API
CallsCloud ==
    \/ pc = "keypair" /\ args.key = "data"
    \/ pc = "networks" /\ iter # <<>> /\ ~resolved(networks, Head(iter))
    \/ pc = "secgroups" /\ iter # <<>> /\ ~resolved(secgroups, Head(iter))
    \/ pc = "sg_rule" /\ eth <= Len(args.stack.securitygroups[Head(iter)])
    \/ pc \in {"subnet", "build_port", "build_fip", "build_volume",
               "build_wait", "build_server"}
    \/ pc = "poll" /\ todo # {}

\* a call of the cloud API raises: nothing is created, nothing is recorded,
\* and the exception leaves provision_step, deploy and main.deploy
ApiRaises ==
    /\ CallsCloud
    /\ Raise("ApiError")
    /\ UNCHANGED <<args, sh, runnerVars, cloudVars, written, cleanupVars, calls,
                   histVars>>

\* the process dies (a kill, a power failure): what the file object still
\* buffers is lost
Crash ==
    /\ Running
    /\ pc # "main"
    /\ pc' = "crashed"
    /\ UNCHANGED <<args, sh, exc, runnerVars, cloudVars, written, flushed, cleanupVars,
                   calls, histVars>>

\* the file object of open(args.cleanup, 'a+') writes its buffer out when
\* the buffer fills; record_resource itself never flushes. The log is
\* followed in whole lines: a line that is cut by the end of the buffer
\* counts as not written out
BufferFlush ==
    /\ Running
    /\ flushed < Len(written)
    /\ flushed' = Len(written)
    /\ UNCHANGED <<args, sh, exc, pc, runnerVars, cloudVars, written, cleanupVars, calls,
                   histVars>>

(* ----------------------------- main.cleanup ---------------------------- *)

\* a cleanup without the except clause: the error ends it
OnDeleteErrorAbort == "cleanup_aborted"

\* main.cleanup's except clause: the error is printed and the loop goes on
OnDeleteError == "cleanup"

\* a cleanup that forgets lines.reverse()
CleanupOrderForward(log) == log

\* the order in which main.cleanup visits the lines it read
CleanupOrder(log) == Reverse(log)

\* main.cleanup reads the log of a run that has ended and reverses it
CleanupStart ==
    /\ pc \in {"done", "failed", "crashed"}
    /\ args.cleanup
    /\ cpc \in {"idle", "cleaned"}
    /\ runs < MaxCleanups
    /\ lines' = CleanupOrder(Durable)
    /\ runs' = runs + 1
    /\ cpc' = "cleanup"
    /\ UNCHANGED <<args, sh, exc, pc, runnerVars, cloudVars, written, flushed, calls,
                   api, histVars>>

\* the outcome of the cloud's delete_subnet: the subnet is in use while a
\* port of its network or a router interface refers to it
subnet_delete(c, uuid) ==
    IF ~Alive(c, "subnet", uuid) THEN "NotFound"
    ELSE IF \E p \in c : \/ p.kind = "router_interface" /\ p.ref = uuid
                         \/ p.kind = "port" /\ p.ref = The(c, "subnet", uuid).ref
         THEN "Conflict"
    ELSE "ok"

\* what a call of delete_subnet leaves: the cloud, the calls it made, and
\* whether it raised
Outcome(c, made, raised) == [cloud |-> c, api |-> made, raised |-> raised]

\* a delete_subnet without the except clause
delete_subnet_once(c, uuid) ==
    LET first == subnet_delete(c, uuid)
    IN Outcome(IF first = "ok" THEN Without(c, <<"subnet", uuid>>) ELSE c,
               <<<<"delete_subnet", uuid, first>>>>, first # "ok")

\* DeploymentRunner.delete_subnet
delete_subnet(c, uuid) ==
    LET first == subnet_delete(c, uuid)
        found == ById({p \in c : p.kind = "router_interface" /\ p.ref = uuid})
        detached == c \ Range(found)
        removes == [i \in 1..Len(found) |->
                       <<"remove_interface_router", found[i].dev, uuid>>]
        again == subnet_delete(detached, uuid)
    IN IF first = "ok"
       THEN Outcome(Without(c, <<"subnet", uuid>>),
                    <<<<"delete_subnet", uuid, first>>>>, FALSE)
       ELSE IF first = "Conflict" /\ found # <<>>
       THEN Outcome(IF again = "ok" THEN Without(detached, <<"subnet", uuid>>)
                    ELSE detached,
                    <<<<"delete_subnet", uuid, first>>>> \o removes
                        \o <<<<"delete_subnet", uuid, again>>>>,
                    again # "ok")
       ELSE Outcome(c, <<<<"delete_subnet", uuid, first>>>>, TRUE)

\* getattr(dr, 'delete_%s' % resource_type)(uuid)
delete(c, e) ==
    IF e[1] = "subnet" THEN delete_subnet(c, e[2])
    ELSE IF EntryAlive(c, e) THEN Outcome(Without(c, e), <<>>, FALSE)
    ELSE Outcome(c, <<>>, TRUE)

\* the calls delete_subnet made, when the line was a subnet's
ApiOf(e, made) == IF e[1] = "subnet" THEN made ELSE api

\* main.cleanup: the delete of one line succeeds
CleanupDelete ==
    /\ cpc = "cleanup"
    /\ lines # <<>>
    /\ ~delete(cloud, Head(lines)).raised
    /\ cloud' = delete(cloud, Head(lines)).cloud
    /\ api' = ApiOf(Head(lines), delete(cloud, Head(lines)).api)
    /\ calls' = Append(calls, Call("cleanup", runs, Head(lines), TRUE))
    /\ lines' = Tail(lines)
    /\ UNCHANGED <<args, sh, exc, pc, runnerVars, nextId, written, flushed, cpc, runs,
                   histVars>>

\* main.cleanup: the delete of one line raises, the resource being absent
\* or a subnet in use
CleanupDeleteFails ==
    /\ cpc = "cleanup"
    /\ lines # <<>>
    /\ delete(cloud, Head(lines)).raised
    /\ cloud' = delete(cloud, Head(lines)).cloud
    /\ api' = ApiOf(Head(lines), delete(cloud, Head(lines)).api)
    /\ calls' = Append(calls, Call("cleanup", runs, Head(lines), FALSE))
    /\ cpc' = OnDeleteError
    /\ lines' = Tail(lines)
    /\ UNCHANGED <<args, sh, exc, pc, runnerVars, nextId, written, flushed, runs,
                   histVars>>

\* main.cleanup: the loop ends
CleanupReturns ==
    /\ cpc = "cleanup"
    /\ lines = <<>>
    /\ cpc' = "cleaned"
    /\ UNCHANGED <<args, sh, exc, pc, runnerVars, cloudVars, written, flushed, lines,
                   runs, api, calls, histVars>>

(* ------------------------------ the run -------------------------------- *)

\* provision_step when no call fails and no instance is in error
ProvisionStep ==
    \/ ProvisionKeypair
    \/ ProvisionNetworkKnown
    \/ CreateNetwork
    \/ CreateSubnet
    \/ NetworksDone
    \/ ProvisionSecgroupKnown
    \/ CreateSecurityGroup
    \/ CreateSecurityGroupRule
    \/ SecurityGroupDone
    \/ SecgroupsDone
    \/ CreateNodeKnown
    \/ CreateNode
    \/ BuildPort
    \/ BuildFloatingIp
    \/ BuildVolume
    \/ BuildVolumeAvailable
    \/ BuildServer
    \/ NodesDone
    \/ \E name \in DOMAIN nodes : PollActive(name)
    \/ \E name \in DOMAIN nodes : PollBuild(name)
    \/ PollRoundEnds

\* the instances in error and the calls that fail
ProvisionErrors ==
    \/ \E name \in DOMAIN nodes : PollErrorRebuild(name)
    \/ \E name \in DOMAIN nodes : PollErrorRaise(name)
    \/ ApiRaises

\* shell_step with run_cmd_once, its process and the clock
ShellSteps ==
    \/ ShellStep
    \/ ShellAttempt
    \/ Tick
    \/ ProcExits
    \/ RunCmdOnceStdin
    \/ RunCmdOnceBrokenPipe
    \/ RunCmdOnceRunning
    \/ RunCmdOnceReturns
    \/ RunCmdOnceFails
    \/ RunCmdOnceDeadline
    \/ ShellTimedOut

\* a run of main.deploy whose process is not killed
Run ==
    \/ MainDeploy
    \/ DeployProvision
    \/ DeployShell
    \/ DeployReturns
    \/ ProvisionStep
    \/ ProvisionErrors
    \/ ShellSteps

\* main.deploy, the crashes of its process, and main.cleanup afterwards
Next ==
    \/ Run
    \/ Crash
    \/ BufferFlush
    \/ CleanupStart
    \/ CleanupDelete
    \/ CleanupDeleteFails
    \/ CleanupReturns

Spec == Init /\ [][Next]_vars

SpecProvision == InitProvision /\ [][Run]_vars

\* a deployment that is one shell step
RunShell ==
    \/ MainDeploy
    \/ DeployShell
    \/ DeployReturns
    \/ ShellSteps

SpecShell == InitShell /\ [][RunShell]_vars

\* a deployment that provisions while no call fails and no instance is in
\* error
RunLive ==
    \/ MainDeploy
    \/ DeployProvision
    \/ DeployReturns
    \/ ProvisionStep

\* a deployment without steps: main.deploy makes the runner, reconciles and
\* returns
RunDetect ==
    \/ MainDeploy
    \/ DeployReturns

SpecDetect == InitDetect /\ [][RunDetect]_vars

\* main.deploy is started again with --incremental, on the same files and
\* the same cloud, after a run that has completed: a new process, a new
\* runner
Restart ==
    /\ pc = "done"
    /\ ~args.cont
    /\ args' = [args EXCEPT !.cont = TRUE]
    /\ pc' = "main"
    /\ step' = 1
    /\ networks' = EmptyMap
    /\ secgroups' = EmptyMap
    /\ nodes' = EmptyMap
    /\ pending' = {}
    /\ todo' = {}
    /\ done' = {}
    /\ iter' = <<>>
    /\ cur' = <<>>
    /\ eth' = 0
    /\ local' = None
    /\ ctx' = ""
    /\ created' = {}
    /\ builds' = EmptyMap
    /\ cleans' = EmptyMap
    /\ allErr' = EmptyMap
    /\ UNCHANGED <<sh, exc, cloudVars, written, flushed, cleanupVars, calls>>

\* a provisioning run that completes and is run again with --incremental
RunContinue ==
    \/ RunLive
    \/ Restart

SpecContinue == InitContinue /\ [][RunContinue]_vars

\* the names a stack can give its nodes
NodeNames == UNION {Range(ExpandNodes(stack)) : stack \in Stacks}

\* the runner goes on as long as it can, a volume becomes available, and an
\* instance that is polled again and again is found ACTIVE in the end
SpecLive ==
    /\ InitLive
    /\ [][RunLive]_vars
    /\ WF_vars(RunLive)
    /\ \A name \in NodeNames : SF_vars(PollActive(name))

(* ======================== the claims, C1 to C10 ======================== *)

\* the nodes the runner itself has made (_create_node), as against those
\* detect_existing_resources found
Built == DOMAIN builds

\* the ledger kinds
Kinds == {"keypair", "network", "subnet", "secgroup", "secgroup_rule", "port",
          "floatingip", "volume", "server"}

\* the entries of kind k in the log that name a resource created for node n
EntriesFor(log, k, n) ==
    {i \in 1..Len(log) : log[i][1] = k /\ <<k, log[i][2], n>> \in created}

\* the deletes main.cleanup issued in its run number k, in order
CleanupCalls(k) ==
    LET OfRun(c) == c[1] = "cleanup" /\ c[2] = k
        cs == SelectSeq(calls, OfRun)
    IN [i \in 1..Len(cs) |-> <<cs[i][3], cs[i][4]>>]

\* has the first step of the deployment, a provision step, returned
ProvisionReturned == step > 1 /\ args.cfg[1] = "provision"

\* C1: with retry_count = R no node is ever built more than R+1 times, a
\* rebuild comes only after a clean(), ProvisionFailed is raised only for a
\* node in ERROR that has been built R+1 times, at that moment every node all
\* of whose polls reported ERROR has been built exactly R+1 times, and the
\* provision step never returns with such a node.
C1_BuiltRetryCountPlusOneTimes ==
    /\ \A n \in Built :
          /\ builds[n] <= args.retry_count + 1
          /\ cleans[n] >= builds[n] - 1
    /\ exc = "ProvisionFailed" =>
          /\ \E n \in pending : /\ builds[n] = args.retry_count + 1
                                /\ nodes[n].server_status = "ERROR"
          /\ \A n \in Built : allErr[n] => builds[n] = args.retry_count + 1
    /\ ProvisionReturned => \A n \in Built : ~allErr[n]

\* C1's case: a run with retries has raised ProvisionFailed over a node that
\* reported ERROR on every poll and was cleaned and rebuilt
C1_Witness ==
    /\ exc = "ProvisionFailed"
    /\ args.retry_count >= 1
    /\ \E n \in Built : allErr[n] /\ builds[n] >= 2 /\ cleans[n] >= 2

\* C2 (as claimed): after a recorded provision step without errors or
\* rebuilds the ledger holds, for every node, one server entry, one volume
\* entry, one port entry per attachment and one floatingip entry per
\* attachment with assign_floating_ip, and no resource created is missing.
C2_LedgerHoldsWhatWasCreated ==
    (/\ pc = "done"
     /\ args.cleanup
     /\ \A n \in Built : builds[n] = 1 /\ cleans[n] = 0) =>
        /\ \A n \in Built :
              LET atts == nodes[n].attachments
              IN /\ Cardinality(EntriesFor(written, "server", n)) = 1
                 /\ Cardinality(EntriesFor(written, "volume", n)) = 1
                 /\ Cardinality(EntriesFor(written, "port", n)) = Len(atts)
                 /\ Cardinality(EntriesFor(written, "floatingip", n)) =
                       Cardinality({i \in 1..Len(atts) :
                                       atts[i].assign_floating_ip})
        /\ \A c \in created : <<c[1], c[2]>> \in Range(written)

\* C3 (as claimed): when main.cleanup has replayed the ledger of a run that
\* completed or was ended by an exception, nothing the run created is alive.
C3_CleanupLeavesNothing ==
    (cpc = "cleaned" /\ pc \in {"done", "failed"}) =>
        \A c \in created : ~EntryAlive(cloud, <<c[1], c[2]>>)

\* C4: in each of its runs main.cleanup issues its deletes in the reverse of
\* the order of the lines it finds in the log: its m-th delete is for the m-th line from the end,
\* by the delete operation of that line's kind, and when a run has ended
\* there has been exactly one delete per line.
C4_CleanupInReverseOrder ==
    \A k \in 1..runs :
        LET cs == CleanupCalls(k)
        IN /\ Len(cs) <= Len(Durable)
           /\ \A m \in 1..Len(cs) : cs[m] = Durable[Len(Durable) + 1 - m]
           /\ (k < runs \/ cpc = "cleaned") => Len(cs) = Len(Durable)

\* C4's case: a cleanup has ended on a log of several kinds
C4_Witness ==
    /\ cpc = "cleaned"
    /\ Len(Durable) >= 5
    /\ Durable[1][1] = "keypair"
    /\ Durable[Len(Durable)][1] = "server"

C6_CreatedIsRecorded ==
    args.cleanup =>
        \A c \in created : c[1] \in Kinds => <<c[1], c[2]>> \in Range(written)

\* C7 (as claimed): after a crash the lines readable from the log are the
\* lines that had been recorded.
C7_CrashLosesNoLine ==
    pc = "crashed" => Durable = written

\* C8 (as claimed): whenever provision_step has returned, every node the
\* stack names is known to the runner and has been observed ACTIVE.
C8_EveryStackNodeActive ==
    ProvisionReturned =>
        \A n \in Range(ExpandNodes(args.stack)) :
            n \in DOMAIN nodes /\ nodes[n].server_status = "ACTIVE"

\* C9: when no call fails, every volume becomes available and every instance
\* is in the end reported ACTIVE and never ERROR, a provision_step that has
\* started returns to deploy with an empty pending set; while it polls, the
\* pending nodes found done are those observed ACTIVE, and a node leaves
\* the pending set only once it has been observed ACTIVE.
C9_ProvisionStepTerminates ==
    /\ (pc = "keypair") ~> (pc = "deploy" /\ pending = {})
    /\ [](pc = "poll" =>
            \A n \in pending :
                n \in done <=> nodes[n].server_status = "ACTIVE")
    /\ [][\A n \in pending \ pending' :
              nodes[n].server_status = "ACTIVE"]_vars

\* C9's case: provision_step has returned after building and polling the
\* nodes of a stack of several
C9_Witness ==
    /\ pc = "deploy"
    /\ step = 2
    /\ pending = {}
    /\ Cardinality(Built) >= 2
    /\ \A n \in Built : nodes[n].server_status = "ACTIVE"

\* C10: a shell step whose 'retry-if-fails' is missing or false starts at
\* most one process, whatever its 'timeout', 'total-timeout' and
\* 'retry-delay'; it returns only after its one process ended with code 0,
\* CommandFailed leaves it at once when the process ended with another code,
\* and CommandTimedOut leaves it, without another attempt, when the deadline
\* has passed.
C10_OneAttemptWithoutRetryIfFails ==
    ~truthy(args.details, "retry-if-fails") =>
        /\ sh.spawned <= 1
        /\ pc = "shell_loop" => sh.spawned = 0
        /\ (step > 1 \/ pc = "failed") => sh.spawned = 1
        /\ step > 1 =>
              sh.result = "returned" /\ sh.proc = "exited" /\ sh.returncode = 0
        /\ sh.result = "CommandFailed" =>
              /\ exc = "CommandFailed" /\ pc = "failed"
              /\ sh.proc = "exited" /\ sh.returncode # 0
        /\ sh.result = "CommandTimedOut" =>
              /\ pc = "shell_timed_out" \/ (pc = "failed" /\ exc = "CommandTimedOut")
              /\ sh.deadline # None /\ sh.now > sh.deadline
        /\ exc \in {"CommandFailed", "CommandTimedOut"} => sh.result = exc

\* C10's case: a step with 'retry-if-fails' false and all three times set
\* has ended with CommandTimedOut after one process
C10_Witness ==
    /\ "retry-if-fails" \in DOMAIN args.details
    /\ ~args.details["retry-if-fails"]
    /\ TimeKeys \subseteq DOMAIN args.details
    /\ args.details["retry-delay"] > 0
    /\ exc = "CommandTimedOut"
    /\ sh.spawned = 1

\* C11 (as claimed): a shell step with 'retry-if-fails' and a
\* 'total-timeout' starts no further process once its overall deadline has
\* passed, and starts a further process no sooner than 'retry-delay' after
\* it started the one before.
C11_NoAttemptAfterOverallDeadline ==
    [][(/\ pc = "shell_loop"
        /\ sh'.spawned = sh.spawned + 1
        /\ sh.spawned > 0
        /\ retry_if_fails(args.details)
        /\ sh.overall_deadline # None) =>
           /\ sh.now <= sh.overall_deadline
           /\ sh.now >= sh.started + sh.retry_delay]_vars

\* C12 (as claimed): after CommandTimedOut shell_step starts another attempt
\* exactly when 'retry-if-fails' is set and the time after the retry delay
\* is earlier than the deadline the next attempt would run under; otherwise
\* CommandTimedOut leaves the step.
C12_RetryAfterTimeoutWhenDelayFits ==
    [][(pc = "shell_timed_out" /\ pc' # pc) =>
          LET next_deadline ==
                  deadline_of(sh.now + sh.retry_delay, sh.individual_exec_limit,
                              sh.overall_deadline)
              fits == /\ retry_if_fails(args.details)
                      /\ sh.now + sh.retry_delay < next_deadline
          IN IF fits
             THEN pc' = "shell_loop"
             ELSE pc' = "failed" /\ exc' = "CommandTimedOut"]_vars

\* C13 (as claimed): an attempt of run_cmd_once that has ended has ended in
\* one of three ways: it returned and the process had exited with code 0,
\* or it raised CommandFailed and the process had exited with another code,
\* or it raised CommandTimedOut, the deadline (the lesser of start + timeout
\* and the overall deadline) had passed and the process was killed; and the
\* process is not running any more.
C13_AttemptEndsInOneOfThreeWays ==
    sh.result # "" =>
        /\ sh.result \in {"returned", "CommandFailed", "CommandTimedOut"}
        /\ sh.result = "returned" => sh.proc = "exited" /\ sh.returncode = 0
        /\ sh.result = "CommandFailed" => sh.proc = "exited" /\ sh.returncode # 0
        /\ sh.result = "CommandTimedOut" =>
              /\ sh.proc = "killed"
              /\ sh.deadline # None /\ sh.now > sh.deadline
              /\ sh.deadline =
                    deadline_of(sh.started, sh.individual_exec_limit,
                                sh.overall_deadline)
        /\ sh.proc # "running"

\* the resources of a kind whose names carry the run's suffix, as listed
Carrying(kind) ==
    SelectSeq(Listing(cloud, kind),
              LAMBDA r : endswith(r.name, add_suffix(<<>>, args.suffix)))

\* the base name of a listed resource
BaseName(r) == strip_suffix(r.name, add_suffix(<<>>, args.suffix))

\* do the first n resources of a list strip to distinct base names
DistinctUpTo(list, n) ==
    \A i, j \in 1..n : i # j => BaseName(list[i]) # BaseName(list[j])

\* how many resources of a list detect_existing_resources gets through: all
\* of them, or those before the first that repeats a base name
Registered(list) ==
    IF DistinctUpTo(list, Len(list)) THEN Len(list)
    ELSE (CHOOSE n \in 1..Len(list) :
              DistinctUpTo(list, n - 1) /\ ~DistinctUpTo(list, n)) - 1

\* C14: when main.deploy has reconciled, then if the listed networks,
\* security groups and instances that carry the suffix strip to distinct base
\* names, nothing was raised and each is registered under its base name; if
\* two of one kind strip to the same base name, DuplicateResource was raised
\* and every base name registered so far names the first resource listed
\* with it.
C14_DetectRegistersOrRaises ==
    (pc # "main" /\ args.cont /\ args.key # "none") =>
        LET nets == Carrying("network")
            sgs == Carrying("secgroup")
            srvs == Carrying("server")
            distinct == /\ DistinctUpTo(nets, Len(nets))
                        /\ DistinctUpTo(sgs, Len(sgs))
                        /\ DistinctUpTo(srvs, Len(srvs))
        IN /\ distinct <=> exc # "DuplicateResource"
           /\ distinct =>
                 /\ DOMAIN networks = {BaseName(nets[i]) : i \in 1..Len(nets)}
                 /\ DOMAIN secgroups = {BaseName(sgs[i]) : i \in 1..Len(sgs)}
                 /\ DOMAIN nodes = {BaseName(srvs[i]) : i \in 1..Len(srvs)}
           /\ pc \in {"aborted", "deploy"} =>
                 /\ \A i \in 1..Len(nets) :
                       BaseName(nets[i]) \in DOMAIN networks =>
                           (networks[BaseName(nets[i])] = nets[i].id
                                <=> i <= Registered(nets))
                 /\ \A i \in 1..Len(sgs) :
                       BaseName(sgs[i]) \in DOMAIN secgroups =>
                           (secgroups[BaseName(sgs[i])] = sgs[i].id
                                <=> i <= Registered(sgs))
                 /\ \A i \in 1..Len(srvs) :
                       BaseName(srvs[i]) \in DOMAIN nodes =>
                           nodes[BaseName(srvs[i])].name = srvs[i].name

\* C14's case: two listed networks strip to the same base name under a
\* suffix, the first is registered, and DuplicateResource has been raised
C14_Witness ==
    /\ exc = "DuplicateResource"
    /\ args.suffix # <<>>
    /\ ~DistinctUpTo(Carrying("network"), Len(Carrying("network")))
    /\ DOMAIN networks # {}

\* the kinds of resources provision_step makes besides the keypair
ProvisionedKinds == Kinds \ {"keypair"}

\* C15: a run with --incremental that follows a completed run of the same
\* stack under the same suffix creates no network, subnet, security group,
\* rule, port, floating IP, volume or instance, and when it has ended its
\* tables name the networks and security groups of the stack that are in
\* the cloud and its node map holds every node of the stack under the name
\* of an instance that is in the cloud.
C15_ContinuationCreatesNothing ==
    args.cont =>
        /\ \A c \in created : c[1] \notin ProvisionedKinds
        /\ pc = "done" =>
              /\ \A n \in args.stack.networks :
                    /\ n \in DOMAIN networks
                    /\ Alive(cloud, "network", networks[n])
                    /\ The(cloud, "network", networks[n]).name =
                          add_suffix(n, args.suffix)
              /\ \A g \in DOMAIN args.stack.securitygroups :
                    /\ g \in DOMAIN secgroups
                    /\ Alive(cloud, "secgroup", secgroups[g])
                    /\ The(cloud, "secgroup", secgroups[g]).name =
                          add_suffix(g, args.suffix)
              /\ \A n \in Range(ExpandNodes(args.stack)) :
                    /\ n \in DOMAIN nodes
                    /\ nodes[n].name = add_suffix(n, args.suffix)
                    /\ \E r \in cloud : r.kind = "server" /\ r.name = nodes[n].name

\* C15's case: the run that continues a completed run of a stack of several
\* nodes under a suffix has ended
C15_Witness ==
    /\ args.cont
    /\ pc = "done"
    /\ args.suffix # <<>>
    /\ Cardinality(DOMAIN nodes) >= 2
    /\ Cardinality({r \in cloud : r.kind = "server"}) >= 2

\* where a step of the given type starts
StartOf(step_type) == IF step_type = "provision" THEN "keypair" ELSE "shell"

\* C16: deploy starts the steps of the deployment in their order, one at a
\* time: it starts step k, and nothing else, when it is at step k; it moves
\* to the next step only when the step it is in returns; and once a step
\* has failed the failure stays, no step is started and the step counter
\* does not move.
C16_StepsInDeclaredOrder ==
    [][/\ (pc = "deploy" /\ pc' # "deploy") =>
             IF step <= Len(args.cfg)
             THEN pc' = StartOf(args.cfg[step]) /\ step' = step
             ELSE pc' = "done"
       /\ (pc # "deploy" /\ pc' = "deploy") =>
             /\ exc' = ""
             /\ \/ pc = "main" /\ step' = step
                \/ pc \in {"poll", "run_poll"} /\ step' = step + 1
       /\ step' # step => pc' = "deploy"
       /\ (pc' = "failed" /\ pc # "failed") => exc' # "" /\ step' = step
       /\ pc \in {"failed", "aborted"} =>
             pc' = pc /\ exc' = exc /\ step' = step]_vars

\* C16's case: the second step of a deployment has failed after the first
\* one returned
C16_Witness ==
    /\ pc = "failed"
    /\ step = 2
    /\ Len(args.cfg) = 2
    /\ exc \in {"CommandFailed", "CommandTimedOut", "ApiError"}

\* C17 (as claimed): no Node of the runner, made by _create_node or by
\* detect_existing_resources, has server_id None while an instance of its
\* name is alive in the cloud.
C17_NoServerIdMeansNoInstance ==
    \A n \in DOMAIN nodes :
        nodes[n].server_id = None =>
            ~\E r \in cloud : r.kind = "server" /\ r.name = nodes[n].name


\* the word the shell reads from a quoted word
Unquoted(s) ==
    IF Len(s) >= 2 /\ Head(s) = "'" /\ s[Len(s)] = "'"
    THEN SubSeq(s, 2, Len(s) - 1) ELSE s

RECURSIVE Words(_, _)
\* the space-separated words of s, after the word w read so far
Words(s, w) ==
    IF s = <<>> THEN (IF w = <<>> THEN <<>> ELSE <<w>>)
    ELSE IF Head(s) = " " THEN <<w>> \o Words(Tail(s), <<>>)
    ELSE Words(Tail(s), Append(w, Head(s)))

\* the values the prefix gives a variable
ValuesOf(env_prefix, key) ==
    {Unquoted(env_prefix[i][2]) :
        i \in {j \in 1..Len(env_prefix) : Unquoted(env_prefix[j][1]) = key}}

\* the node is one the stack's template describes, and the template sets
\* export
TemplateExports(n) ==
    n \in Range(ExpandNodes(args.stack)) /\ args.stack.export

\* C18: the environment prefix of a shell step holds ALL_NODES, the
\* space-joined suffixed names of all nodes the runner knows; for every node
\* whose template sets export, built in this run or recovered by
\* reconciliation, it holds one OVERCAST_<node>_<network>_fixed per attached
\* port with the port's fixed IP; a node without the flag has no such
\* variable.
C18_EnvPrefixNamesNodesAndExports ==
    InShellStep =>
        /\ \E v \in ValuesOf(sh.env_prefix, ALL_NODES) :
              /\ ValuesOf(sh.env_prefix, ALL_NODES) = {v}
              /\ Range(Words(v, <<>>)) = {nodes[n].name : n \in DOMAIN nodes}
              /\ Len(Words(v, <<>>)) = Cardinality(DOMAIN nodes)
        /\ \A n \in DOMAIN nodes :
              \A i \in 1..Len(nodes[n].ports) :
                  LET port == nodes[n].ports[i]
                      values == ValuesOf(sh.env_prefix,
                                         fixed_key(n, port.network_name))
                  IN IF TemplateExports(n)
                     THEN port.fixed_ip \in values
                     ELSE values = {}


\* C19: provision_step creates a declared network only when its logical
\* name is resolved neither by the static mapping nor by reconciliation nor
\* by an earlier creation of the run; a network with an entry in the static
\* mapping is never created.
C19_ResolvedNetworkNotCreated ==
    [][\A r \in cloud' \ cloud :
          r.kind = "network" =>
              \A b \in args.stack.networks :
                  r.name = add_suffix(b, args.suffix) =>
                      /\ b \notin DOMAIN args.mappings.networks
                      /\ b \notin DOMAIN networks]_vars


\* C20: a rule with a source_group that create_security_group makes refers
\* to the id the security-group naming table binds to that name at that
\* moment, the group being created included, and otherwise to the literal
\* source_group; the only failure of a rule's creation is the cloud's.
C20_SourceGroupResolvedOrLiteral ==
    [][pc = "sg_rule" =>
          /\ \A r \in cloud' \ cloud :
                LET source_group ==
                        args.stack.securitygroups[Head(iter)][eth].source_group
                IN (r.kind = "secgroup_rule" /\ source_group # <<>>) =>
                       /\ source_group \in DOMAIN secgroups =>
                              r.name = <<"#">> \o Decimal(secgroups[source_group])
                       /\ source_group \notin DOMAIN secgroups =>
                              r.name = source_group
          /\ exc' # exc => exc' = "ApiError"]_vars

\* a rule whose source_group is the group being created refers to that group
C20_Witness ==
    \E r \in cloud :
        /\ r.kind = "secgroup_rule"
        /\ SgName \in DOMAIN secgroups
        /\ r.ref = secgroups[SgName]
        /\ r.name = <<"#">> \o Decimal(r.ref)
        /\ args.stack.securitygroups[SgName][1].source_group = SgName


\* the deletes a step has added to the log of calls
NewCalls == SubSeq(calls', Len(calls) + 1, Len(calls'))

\* the place of a kind in the order of Node.clean
CleanRank(kind) ==
    IF kind = "floatingip" THEN 1 ELSE IF kind = "port" THEN 2 ELSE 3

\* the ids of the deletes of a kind among a sequence of calls
DeletedOf(cs, kind) == {cs[i][4] : i \in {j \in 1..Len(cs) : cs[j][3] = kind}}

\* C21: clean() deletes all floating IPs of the node, then all its ports,
\* then its instance, and leaves the node without floating-IP ids, ports and
\* instance id; the build() that follows makes a fresh set: when it ends the
\* node holds one live port per attachment, one live floating IP per
\* attachment that asks for one, and a new live instance.
C21_CleanThenFreshBuild ==
    [][\A n \in DOMAIN nodes :
          /\ (n \in DOMAIN cleans /\ cleans'[n] # cleans[n]) =>
                /\ \A i, j \in 1..Len(NewCalls) :
                      i < j => CleanRank(NewCalls[i][3]) <= CleanRank(NewCalls[j][3])
                /\ Len(NewCalls) = Cardinality(nodes[n].fip_ids)
                                     + Len(nodes[n].ports) + 1
                /\ DeletedOf(NewCalls, "floatingip") = nodes[n].fip_ids
                /\ DeletedOf(NewCalls, "port")
                       = {nodes[n].ports[i].id : i \in 1..Len(nodes[n].ports)}
                /\ DeletedOf(NewCalls, "server") = {nodes[n].server_id}
                /\ nodes'[n].fip_ids = {}
                /\ nodes'[n].ports = <<>>
                /\ nodes'[n].server_id = None
          /\ (n \in DOMAIN builds /\ builds'[n] # builds[n] /\ cleans[n] > 0) =>
                LET node == nodes'[n]
                    ports == {node.ports[i].id : i \in 1..Len(node.ports)}
                    asked == {i \in 1..Len(node.attachments) :
                                 node.attachments[i].assign_floating_ip}
                IN /\ Len(node.ports) = Len(node.attachments)
                   /\ Cardinality(ports) = Len(node.ports)
                   /\ \A p \in ports : Alive(cloud', "port", p)
                   /\ Cardinality(node.fip_ids) = Cardinality(asked)
                   /\ \A f \in node.fip_ids : Alive(cloud', "floatingip", f)
                   /\ Alive(cloud', "server", node.server_id)
                   /\ \A i \in 1..Len(calls') :
                         calls'[i][4] \notin ports \cup node.fip_ids
                                                 \cup {node.server_id}]_vars

\* C21's case: a node with a floating IP was cleaned and has been built again
C21_Witness ==
    \E n \in DOMAIN nodes :
        /\ n \in DOMAIN cleans /\ cleans[n] > 0 /\ builds[n] > cleans[n]
        /\ nodes[n].fip_ids # {}
        /\ nodes[n].server_id # None


\* the calls of one name among the calls of a delete_subnet
ApiCalls(made, name) == {i \in 1..Len(made) : made[i][1] = name}

\* C22: when the deletion of a subnet fails with a conflict and a router
\* interface refers to the subnet, delete_subnet detaches it and tries the
\* deletion once more, and a failure of that retry propagates; when no router
\* interface refers to the subnet nothing is detached and the conflict is
\* raised again; the deletion is never attempted more than twice.
C22_SubnetDeleteRetriedOnce ==
    [][(cpc = "cleanup" /\ lines # <<>> /\ lines' = Tail(lines)
            /\ Head(lines)[1] = "subnet") =>
          LET uuid == Head(lines)[2]
              first == subnet_delete(cloud, uuid)
              interfaces == {p \in cloud : p.kind = "router_interface"
                                              /\ p.ref = uuid}
              deletes == ApiCalls(api', "delete_subnet")
              removes == ApiCalls(api', "remove_interface_router")
              raised == ~calls'[Len(calls')][5]
          IN /\ Cardinality(deletes) <= 2
             /\ (first = "Conflict" /\ interfaces # {}) =>
                   /\ Cardinality(deletes) = 2
                   /\ {api'[i][2] : i \in removes}
                          = {p.dev : p \in interfaces}
                   /\ \A i \in removes : 1 < i /\ i < Len(api')
                   /\ cloud' \cap interfaces = {}
                   /\ raised <=> api'[Len(api')][3] # "ok"
                   /\ raised <=> Alive(cloud', "subnet", uuid)
             /\ (first = "Conflict" /\ interfaces = {}) =>
                   /\ Cardinality(deletes) = 1
                   /\ removes = {}
                   /\ cloud' = cloud
                   /\ raised]_vars

\* C22's case: a subnet deletion met a conflict, its router interface was
\* detached and the retry deleted the subnet
C22_Witness ==
    /\ Len(api) = 3
    /\ api[1][3] = "Conflict"
    /\ api[2][1] = "remove_interface_router"
    /\ api[3][3] = "ok"
    /\ ~Alive(cloud, "subnet", api[1][2])


\* the ports of the cloud that this run has created
PortsOfRun(c) ==
    {p \in c : p.kind = "port" /\ \E n \in DOMAIN nodes : <<"port", p.id, n>> \in created}

\* C23: once a logical network or security-group name is bound in a naming
\* table, reconciliation and provision steps neither change nor remove the
\* binding, and every port the run creates for the logical network uses the
\* same network id.
C23_NamingTablesStable ==
    [][/\ \A b \in DOMAIN networks :
             b \in DOMAIN networks' /\ networks'[b] = networks[b]
       /\ \A g \in DOMAIN secgroups :
             g \in DOMAIN secgroups' /\ secgroups'[g] = secgroups[g]
       /\ \A p \in cloud' \ cloud :
             p.kind = "port" =>
                 \A q \in PortsOfRun(cloud) : q.ref = p.ref]_vars

\* C23's case: a second provision step has passed over the network its
\* predecessor bound and goes on to the security groups, ports being made
C23_Witness ==
    /\ step = 2
    /\ pc = "secgroups"
    /\ NetName \in DOMAIN networks
    /\ SgName \in DOMAIN secgroups
    /\ PortsOfRun(cloud) # {}


\* build() has been invoked on the node and has not returned
InBuild(n) ==
    /\ pc \in {"build_port", "build_fip", "build_volume", "build_wait",
               "build_server"}
    /\ cur = n

\* the completed builds of a node (none for a node reconciliation made)
CompletedBuilds(n) == IF n \in DOMAIN builds THEN builds[n] ELSE 0

\* C24: with retry_count = R every node has 0 <= attempts_left <= R+1 in
\* every state, attempts_left is R+1 less the completed builds of the node,
\* and build() runs only on a node whose attempts_left is positive.
C24_AttemptsLeftIsTheBudget ==
    \A n \in DOMAIN nodes :
        /\ 0 <= nodes[n].attempts_left
        /\ nodes[n].attempts_left <= args.retry_count + 1
        /\ nodes[n].attempts_left = args.retry_count + 1 - CompletedBuilds(n)
        /\ InBuild(n) => nodes[n].attempts_left > 0

\* C24's case: the last attempt of a node of a run with retries is being
\* built, after the builds before it were cleaned
C24_Witness ==
    \E n \in DOMAIN nodes :
        /\ args.retry_count > 0
        /\ InBuild(n)
        /\ nodes[n].attempts_left = 1
        /\ CompletedBuilds(n) = args.retry_count


\* the run has created the resource of this kind and id (a keypair's id is
\* its name)
CreatedByRun(hist, kind, id) == \E c \in hist : c[1] = kind /\ c[2] = id

\* C25: every line appended to the ledger names a resource that this run
\* created, so main.cleanup, replaying the ledger, deletes no resource that
\* was there before the run, the keypair pubkey[_suffix] that already existed
\* included.
C25_LedgerNamesOnlyWhatTheRunCreated ==
    [][/\ \A i \in (Len(written) + 1)..Len(written') :
             CreatedByRun(created', written'[i][1], written'[i][2])
       /\ cpc = "cleanup" =>
             \A r \in cloud \ cloud' :
                 r.kind # "router_interface" =>
                     CreatedByRun(created, r.kind,
                                  IF r.kind = "keypair" THEN r.name ELSE r.id)]_vars

====
